---- MODULE Spec2Model ----
(***************************************************************************)
(* Model of src/app.py: a Flask application with two tables (users,        *)
(* projects), flask-login sessions, and the handlers login, register,      *)
(* logout, client_dashboard, admin_dashboard, create_client and            *)
(* create_project.  Every HTTP request is one atomic step (spec section 5: *)
(* each request runs to completion).  The last response is kept in `resp`  *)
(* together with the request that produced it.                             *)
(***************************************************************************)
EXTENDS Integers, Sequences, FiniteSets, TLC

VARIABLES
    users,          \* rows of table users: [id, email, password, role]
    projects,       \* rows of table projects: [id, start_date, client_id]
    nextUserId,     \* next value of the users.id sequence
    nextProjectId,  \* next value of the projects.id sequence
    session,        \* per browser: the user id in the session cookie, 0 = none
    resp,           \* the last request and the response it got
    registered      \* history: form (email, password) of the committed register/create_client
                    \* requests whose users row is still in the table

vars == <<users, projects, nextUserId, nextProjectId, session, resp, registered>>

----------------------------------------------------------------------------
(* Bounds of the model *)

\* largest users.id the model allocates
MaxUsers == 3
\* largest projects.id the model allocates
MaxProjects == 2

Browsers == {"b1"}

AdminEmail == "admin@consultoria.py"
AdminPassword == "admin123"

Emails == {AdminEmail, "c@x.com", "d@x.com"}
Passwords == {AdminPassword, "pw1"}

ClientIds == 1..MaxUsers

----------------------------------------------------------------------------
(* Password hashing: werkzeug generate_password_hash / check_password_hash *)

PwCode(pw) == CASE pw = "admin123" -> 1
                [] pw = "pw1" -> 2
                [] OTHER -> 3

\* one-way digest of salt and password; injective on the modelled domain
Digest(salt, pw) == (salt * 31 + PwCode(pw) * 17) % 101

\* User.set_password: a salted hash; the library draws a fresh salt for every
\* hash, modelled by a salt no other row has (the id being allocated)
generate_password_hash(pw, salt) == [salt |-> salt, digest |-> Digest(salt, pw)]

check_password_WrongAlwaysTrue(stored, pw) == TRUE

\* User.check_password: re-derive with the stored salt and compare
check_password(stored, pw) == Digest(stored.salt, pw) = stored.digest

----------------------------------------------------------------------------
(* datetime.strptime(s, '%Y-%m-%d').date() on a string given as a sequence *)
(* of characters                                                           *)

Digits == <<"0", "1", "2", "3", "4", "5", "6", "7", "8", "9">>

IsDigit(c) == \E i \in 1..10 : Digits[i] = c

DigitVal(c) == (CHOOSE i \in 1..10 : Digits[i] = c) - 1

\* int() of a token of one or two digits
TokenVal(t) == IF Len(t) = 1 THEN DigitVal(t[1])
               ELSE DigitVal(t[1]) * 10 + DigitVal(t[2])

\* %m : 1[0-2] | 0[1-9] | [1-9]
MatchesMonth(t) ==
    \/ Len(t) = 2 /\ t[1] = "1" /\ t[2] \in {"0", "1", "2"}
    \/ Len(t) = 2 /\ t[1] = "0" /\ IsDigit(t[2]) /\ t[2] # "0"
    \/ Len(t) = 1 /\ IsDigit(t[1]) /\ t[1] # "0"

\* %d : 3[0-1] | [1-2]\d | 0[1-9] | [1-9] | ' '[1-9]
MatchesDay(t) ==
    \/ Len(t) = 2 /\ t[1] = "3" /\ t[2] \in {"0", "1"}
    \/ Len(t) = 2 /\ t[1] \in {"1", "2"} /\ IsDigit(t[2])
    \/ Len(t) = 2 /\ t[1] \in {"0", " "} /\ IsDigit(t[2]) /\ t[2] # "0"
    \/ Len(t) = 1 /\ IsDigit(t[1]) /\ t[1] # "0"

DayVal(t) == IF Len(t) = 2 /\ t[1] = " " THEN DigitVal(t[2]) ELSE TokenVal(t)

IsLeap(y) == (y % 4 = 0 /\ y % 100 # 0) \/ y % 400 = 0

DaysInMonth(y, m) ==
    IF m = 2 THEN (IF IsLeap(y) THEN 29 ELSE 28)
    ELSE IF m \in {4, 6, 9, 11} THEN 30 ELSE 31

\* datetime.date(y, m, d) raises ValueError outside the calendar
ValidCalendarDate(y, m, d) ==
    /\ y >= 1
    /\ m \in 1..12
    /\ d >= 1 /\ d <= DaysInMonth(y, m)

NoDate == [year |-> 0, month |-> 0, day |-> 0]

\* position of the second '-' : the month token is s[6..k-1], the day token the rest
SecondDash(s) == IF Len(s) >= 7 /\ s[7] = "-" THEN 7
                 ELSE IF Len(s) >= 8 /\ s[8] = "-" THEN 8 ELSE 0

\* the regex of '%Y-%m-%d' matches the whole string
MatchesFormat(s) ==
    /\ Len(s) >= 8
    /\ \A i \in 1..4 : IsDigit(s[i])
    /\ s[5] = "-"
    /\ SecondDash(s) # 0
    /\ MatchesMonth(SubSeq(s, 6, SecondDash(s) - 1))
    /\ MatchesDay(SubSeq(s, SecondDash(s) + 1, Len(s)))

StrYear(s) == DigitVal(s[1]) * 1000 + DigitVal(s[2]) * 100 + DigitVal(s[3]) * 10 + DigitVal(s[4])
StrMonth(s) == TokenVal(SubSeq(s, 6, SecondDash(s) - 1))
StrDay(s) == DayVal(SubSeq(s, SecondDash(s) + 1, Len(s)))

strptime_NoCalendarCheck(s) ==
    IF MatchesFormat(s)
    THEN [ok |-> TRUE, date |-> [year |-> StrYear(s), month |-> StrMonth(s), day |-> StrDay(s)]]
    ELSE [ok |-> FALSE, date |-> NoDate]

\* ok = FALSE stands for the ValueError strptime raises
strptime(s) ==
    IF MatchesFormat(s) /\ ValidCalendarDate(StrYear(s), StrMonth(s), StrDay(s))
    THEN [ok |-> TRUE, date |-> [year |-> StrYear(s), month |-> StrMonth(s), day |-> StrDay(s)]]
    ELSE [ok |-> FALSE, date |-> NoDate]

\* the start_date form values the model submits
S_2024_03_15 == <<"2", "0", "2", "4", "-", "0", "3", "-", "1", "5">>
S_2024_3_15 == <<"2", "0", "2", "4", "-", "3", "-", "1", "5">>
S_2023_02_29 == <<"2", "0", "2", "3", "-", "0", "2", "-", "2", "9">>
S_2024_13_01 == <<"2", "0", "2", "4", "-", "1", "3", "-", "0", "1">>
S_15_03_2024 == <<"1", "5", "/", "0", "3", "/", "2", "0", "2", "4">>
S_empty == << >>

DateStrings == {S_2024_03_15, S_2024_3_15, S_2023_02_29, S_2024_13_01, S_15_03_2024, S_empty}

----------------------------------------------------------------------------
(* The store *)

NoHash == [salt |-> 0, digest |-> 0]

\* flask-login's AnonymousUserMixin: what current_user is without a valid session
Anonymous == [id |-> 0, email |-> "", password |-> NoHash, role |-> "anonymous"]

\* User.query.filter_by(email=email): the rows with that email
UsersByEmail_NoneFound(email) == {}

UsersByEmail(email) == {u \in users : u.email = email}

\* load_user: User.query.get(int(user_id)), None when the row is gone
load_user(uid) ==
    IF \E u \in users : u.id = uid
    THEN CHOOSE u \in users : u.id = uid
    ELSE Anonymous

\* flask-login current_user of the browser making the request
current_user(b) == IF session[b] = 0 THEN Anonymous ELSE load_user(session[b])

login_required_Missing(b) == TRUE

\* @login_required lets the request through only for an authenticated user
login_required(b) == current_user(b).role # "anonymous"

HasRole_AnyAuthenticated(b, role) == current_user(b).role # "anonymous"

\* the handlers' role test: current_user.role == role
HasRole(b, role) == current_user(b).role = role

NewClient_AsAdmin(id, email, pw, salt) ==
    [id |-> id, email |-> email, password |-> generate_password_hash(pw, salt), role |-> "admin"]

\* User(email=..., role='client') followed by set_password
NewClient(id, email, pw, salt) ==
    [id |-> id, email |-> email, password |-> generate_password_hash(pw, salt), role |-> "client"]

\* the seeded administrator of the bootstrap block
NewAdmin(id, salt) ==
    [id |-> id, email |-> AdminEmail,
     password |-> generate_password_hash(AdminPassword, salt), role |-> "admin"]

\* users.email is unique: the store refuses a second row with the email
UniqueEmailOk(u) == \A v \in users : v.email # u.email

\* projects.client_id is a foreign key into users.id: the store refuses a dangling one
ForeignKeyOk(cid) == \E u \in users : u.id = cid

ProjectsOfClient_Unfiltered(uid) == projects

\* Project.query.filter_by(client_id=current_user.id).all()
ProjectsOfClient(uid) == {p \in projects : p.client_id = uid}

\* User.query.filter_by(role='client').all()
ClientUsers == {u \in users : u.role = "client"}

DateKey(d) == d.year * 10000 + d.month * 100 + d.day

\* Project.query.order_by(Project.start_date.desc()).all(): every order the
\* store may return, rows with equal dates in any order
ProjectsByDateDesc ==
    {q \in [1..Cardinality(projects) -> projects] :
        /\ \A i, j \in DOMAIN q : i # j => q[i] # q[j]
        /\ \A i, j \in DOMAIN q : i < j => DateKey(q[i].start_date) >= DateKey(q[j].start_date)}

CascadeDelete_NoCascade(uid) == projects

\* ON DELETE CASCADE of projects.client_id: the rows that survive deleting user uid
CascadeDelete(uid) == {p \in projects : p.client_id # uid}

----------------------------------------------------------------------------
(* Requests and responses *)

\* the form fields the model keeps with the response
NoForm == [email |-> "", password |-> "", start_date |-> << >>]

Request(route, method, b, form) ==
    [route |-> route, method |-> method, browser |-> b, form |-> form]

\* status: "render" (a template), "redirect" (to an endpoint), "error" (an
\* uncaught exception, answered as a server error), "done" (a store operation)
\* cond: the error condition the request met, "none" when it met none
Response(req, status, target, flash, cond) ==
    [req |-> req, status |-> status, target |-> target, flash |-> flash, cond |-> cond,
     projects |-> {}, all_projects |-> << >>, clients |-> {}]

\* login_manager.unauthorized(): flash login_message, redirect to login_view
Unauthorized(req) == Response(req, "redirect", "login", "login_required", "unauthenticated")

Init ==
    /\ users = {NewAdmin(1, 1)}
    /\ projects = {}
    /\ nextUserId = 2
    /\ nextProjectId = 1
    /\ session = [b \in Browsers |-> 0]
    /\ resp = Response(Request("index", "GET", "b1", NoForm), "render", "index.html", "", "none")
    /\ registered = {}

\* GET /
Index(b) ==
    /\ resp' = Response(Request("index", "GET", b, NoForm), "render", "index.html", "", "none")
    /\ UNCHANGED <<users, projects, nextUserId, nextProjectId, session, registered>>

\* GET/POST /login
Login(b, method, email, pw) ==
    LET form == [NoForm EXCEPT !.email = email, !.password = pw]
        req == Request("login", method, b, form)
        found == UsersByEmail(email)
    IN  IF method # "POST"
        THEN /\ resp' = Response(req, "render", "login.html", "", "none")
             /\ UNCHANGED <<users, projects, nextUserId, nextProjectId, session, registered>>
        ELSE IF found # {} /\ check_password((CHOOSE u \in found : TRUE).password, pw)
        THEN LET user == CHOOSE u \in found : TRUE
             IN  /\ session' = [session EXCEPT ![b] = user.id]
                 /\ resp' = Response(req, "redirect",
                                     IF user.role = "admin" THEN "admin_dashboard"
                                                            ELSE "client_dashboard",
                                     "", "none")
                 /\ UNCHANGED <<users, projects, nextUserId, nextProjectId, registered>>
        ELSE /\ resp' = Response(req, "render", "login.html",
                                 "invalid_credentials", "invalid_credentials")
             /\ UNCHANGED <<users, projects, nextUserId, nextProjectId, session, registered>>

\* db.session.add(user); db.session.commit() of a new users row
InsertUser(req, u, pw, okTarget, okFlash) ==
    /\ nextUserId <= MaxUsers
    /\ nextUserId' = nextUserId + 1
    /\ IF UniqueEmailOk(u)
       THEN /\ users' = users \cup {u}
            /\ registered' = registered \cup
                   {[email |-> u.email, password |-> pw]}
            /\ resp' = Response(req, "redirect", okTarget, okFlash, "none")
       ELSE /\ resp' = Response(req, "error", "IntegrityError", "", "unique_violation")
            /\ UNCHANGED <<users, registered>>
    /\ UNCHANGED <<projects, nextProjectId, session>>

\* GET/POST /register
Register(b, method, email, pw) ==
    LET form == [NoForm EXCEPT !.email = email]
        req == Request("register", method, b, form)
    IN  IF method # "POST"
        THEN /\ resp' = Response(req, "render", "register.html", "", "none")
             /\ UNCHANGED <<users, projects, nextUserId, nextProjectId, session, registered>>
        ELSE IF UsersByEmail(email) # {}
        THEN /\ resp' = Response(req, "redirect", "register",
                                 "duplicate_email", "duplicate_email")
             /\ UNCHANGED <<users, projects, nextUserId, nextProjectId, session, registered>>
        ELSE InsertUser(req, NewClient(nextUserId, email, pw, nextUserId), pw, "login", "account_created")

\* GET /logout
Logout(b) ==
    LET req == Request("logout", "GET", b, NoForm)
    IN  IF ~login_required(b)
        THEN /\ resp' = Unauthorized(req)
             /\ UNCHANGED <<users, projects, nextUserId, nextProjectId, session, registered>>
        ELSE /\ session' = [session EXCEPT ![b] = 0]
             /\ resp' = Response(req, "redirect", "index", "", "none")
             /\ UNCHANGED <<users, projects, nextUserId, nextProjectId, registered>>

\* GET /dashboard
ClientDashboard(b) ==
    LET req == Request("dashboard", "GET", b, NoForm)
    IN  /\ resp' = IF ~login_required(b) THEN Unauthorized(req)
                   ELSE IF ~HasRole(b, "client")
                   THEN Response(req, "redirect", "index", "unauthorized", "role_mismatch")
                   ELSE [Response(req, "render", "dashboard.html", "", "none")
                            EXCEPT !.projects = ProjectsOfClient(current_user(b).id)]
        /\ UNCHANGED <<users, projects, nextUserId, nextProjectId, session, registered>>

\* GET /admin
AdminDashboard(b) ==
    LET req == Request("admin", "GET", b, NoForm)
    IN  /\ IF ~login_required(b) THEN resp' = Unauthorized(req)
           ELSE IF ~HasRole(b, "admin")
           THEN resp' = Response(req, "redirect", "index", "unauthorized", "role_mismatch")
           ELSE \E q \in ProjectsByDateDesc :
                    resp' = [Response(req, "render", "admin.html", "", "none")
                                EXCEPT !.clients = ClientUsers, !.all_projects = q]
        /\ UNCHANGED <<users, projects, nextUserId, nextProjectId, session, registered>>

\* POST /create_client
CreateClient(b, email, pw) ==
    LET form == [NoForm EXCEPT !.email = email]
        req == Request("create_client", "POST", b, form)
    IN  IF ~login_required(b)
        THEN /\ resp' = Unauthorized(req)
             /\ UNCHANGED <<users, projects, nextUserId, nextProjectId, session, registered>>
        ELSE IF ~HasRole(b, "admin")
        THEN /\ resp' = Response(req, "redirect", "index", "", "role_mismatch")
             /\ UNCHANGED <<users, projects, nextUserId, nextProjectId, session, registered>>
        ELSE IF UsersByEmail(email) # {}
        THEN /\ resp' = Response(req, "redirect", "admin_dashboard",
                                 "duplicate_email", "duplicate_email")
             /\ UNCHANGED <<users, projects, nextUserId, nextProjectId, session, registered>>
        ELSE InsertUser(req, NewClient(nextUserId, email, pw, nextUserId), pw,
                        "admin_dashboard", "client_created")

\* POST /create_project
CreateProject(b, start_date_str, client_id) ==
    LET form == [NoForm EXCEPT !.start_date = start_date_str]
        req == Request("create_project", "POST", b, form)
        parsed == strptime(start_date_str)
    IN  IF ~login_required(b)
        THEN /\ resp' = Unauthorized(req)
             /\ UNCHANGED <<users, projects, nextUserId, nextProjectId, session, registered>>
        ELSE IF ~HasRole(b, "admin")
        THEN /\ resp' = Response(req, "redirect", "index", "", "role_mismatch")
             /\ UNCHANGED <<users, projects, nextUserId, nextProjectId, session, registered>>
        ELSE IF ~parsed.ok
        THEN /\ resp' = Response(req, "error", "ValueError", "", "bad_date")
             /\ UNCHANGED <<users, projects, nextUserId, nextProjectId, session, registered>>
        ELSE /\ nextProjectId <= MaxProjects
             /\ nextProjectId' = nextProjectId + 1
             /\ IF ForeignKeyOk(client_id)
                THEN /\ projects' = projects \cup
                            {[id |-> nextProjectId, start_date |-> parsed.date,
                              client_id |-> client_id]}
                     /\ resp' = Response(req, "redirect", "admin_dashboard",
                                         "project_created", "none")
                ELSE /\ resp' = Response(req, "error", "IntegrityError", "", "fk_violation")
                     /\ UNCHANGED projects
             /\ UNCHANGED <<users, nextUserId, session, registered>>

\* DELETE FROM users WHERE id = uid, run against the store (no route does it)
DeleteUser(uid) ==
    /\ \E u \in users : u.id = uid
    /\ users' = {u \in users : u.id # uid}
    /\ projects' = CascadeDelete(uid)
    /\ resp' = [Response(Request("store_delete_user", "SQL", "b1", NoForm),
                         "done", "", "", "none")
                    EXCEPT !.projects = projects \ CascadeDelete(uid)]
    /\ registered' = {c \in registered : \A u \in users : u.id = uid => u.email # c.email}
    /\ UNCHANGED <<nextUserId, nextProjectId, session>>

\* the bootstrap block run again at a process start: seed the admin if absent
Bootstrap ==
    /\ UsersByEmail(AdminEmail) = {}
    /\ nextUserId <= MaxUsers
    /\ users' = users \cup {NewAdmin(nextUserId, nextUserId)}
    /\ nextUserId' = nextUserId + 1
    /\ resp' = Response(Request("bootstrap", "START", "b1", NoForm), "done", "", "", "none")
    /\ UNCHANGED <<projects, nextProjectId, session, registered>>

Next ==
    \/ \E b \in Browsers : Index(b)
    \/ \E b \in Browsers : Login(b, "GET", "", "")
    \/ \E b \in Browsers, e \in Emails, p \in Passwords : Login(b, "POST", e, p)
    \/ \E b \in Browsers : Register(b, "GET", "", "")
    \/ \E b \in Browsers, e \in Emails, p \in Passwords : Register(b, "POST", e, p)
    \/ \E b \in Browsers : Logout(b)
    \/ \E b \in Browsers : ClientDashboard(b)
    \/ \E b \in Browsers : AdminDashboard(b)
    \/ \E b \in Browsers, e \in Emails, p \in Passwords : CreateClient(b, e, p)
    \/ \E b \in Browsers, d \in DateStrings, c \in ClientIds : CreateProject(b, d, c)

Spec == Init /\ [][Next]_vars

\* the HTTP requests together with the store-level operations
NextStore ==
    \/ Next
    \/ \E uid \in 1..MaxUsers : DeleteUser(uid)
    \/ Bootstrap

SpecStore == Init /\ [][NextStore]_vars

----------------------------------------------------------------------------
(* Properties *)

\* the browser and form of the request behind the last response
LastBrowser == resp.req.browser
LastRoute == resp.req.route
LastForm == resp.req.form

\* role of the user a browser's session stands for, read from the tables
SessionRole(b) ==
    IF \E u \in users : u.id = session[b]
    THEN (CHOOSE u \in users : u.id = session[b]).role
    ELSE "anonymous"

Date_2024_03_15 == [year |-> 2024, month |-> 3, day |-> 15]

\* the calendar date each submitted start_date string denotes, if any
Denotes(s) ==
    CASE s = S_2024_03_15 -> [valid |-> TRUE, date |-> Date_2024_03_15]
      [] s = S_2024_3_15 -> [valid |-> TRUE, date |-> Date_2024_03_15]
      [] OTHER -> [valid |-> FALSE, date |-> NoDate]

\* C1: the project list GET /dashboard renders is rendered only to a logged-in
\* client and holds exactly the projects whose client_id is that client's id
C1_DashboardShowsOwnProjects ==
    (LastRoute = "dashboard" /\ resp.status = "render") =>
        /\ SessionRole(LastBrowser) = "client"
        /\ resp.projects = {p \in projects : p.client_id = session[LastBrowser]}

\* a client sees its own projects while another user's project is in the store
C1_Witness ==
    /\ LastRoute = "dashboard" /\ resp.status = "render"
    /\ resp.projects # {}
    /\ \E p \in projects : p.client_id # session[LastBrowser]

\* C2: no two users rows share an email, and a POST to /register or (by an
\* admin) to /create_client with an email already in users is answered with
\* the duplicate-email message and leaves users unchanged
C2_DuplicateEmailRejected ==
    /\ [](\A u, v \in users : u.email = v.email => u = v)
    /\ [][(/\ resp'.req.route \in {"register", "create_client"}
           /\ resp'.req.method = "POST"
           /\ resp'.req.route = "create_client" => SessionRole(resp'.req.browser) = "admin"
           /\ \E u \in users : u.email = resp'.req.form.email)
          => (/\ users' = users
              /\ resp'.status = "redirect"
              /\ resp'.flash = "duplicate_email")]_vars

\* a registration was refused for a duplicate email of a registered client
C2_Witness ==
    /\ LastRoute \in {"register", "create_client"}
    /\ resp.flash = "duplicate_email"
    /\ \E c \in registered : c.email = LastForm.email

\* C3: once (email, password) was registered, a login POST with that pair sets
\* the session to that user, and a login POST with that email and another
\* password leaves the session as it was and reports invalid credentials
C3_RegisteredCredentialsLogIn ==
    [][(/\ resp'.req.route = "login"
        /\ resp'.req.method = "POST"
        /\ \E c \in registered : c.email = resp'.req.form.email)
       => IF [email |-> resp'.req.form.email, password |-> resp'.req.form.password]
                \in registered
          THEN /\ resp'.status = "redirect"
               /\ resp'.cond = "none"
               /\ \E u \in users : /\ u.email = resp'.req.form.email
                                   /\ session'[resp'.req.browser] = u.id
          ELSE /\ resp'.flash = "invalid_credentials"
               /\ resp'.status # "redirect"
               /\ session' = session]_vars

\* a registered client logged in with its password after an admin gave it a project
C3_Witness ==
    /\ LastRoute = "login" /\ resp.status = "redirect"
    /\ [email |-> LastForm.email, password |-> LastForm.password] \in registered
    /\ \E p \in projects : p.client_id = session[LastBrowser]

\* C4: /dashboard and /admin answer a browser without an authenticated session
\* with a redirect to login and no users or projects rows
C4_UnauthenticatedGetsNoData ==
    (LastRoute \in {"dashboard", "admin"} /\ SessionRole(LastBrowser) = "anonymous") =>
        /\ resp.status = "redirect"
        /\ resp.target = "login"
        /\ resp.projects = {}
        /\ resp.all_projects = << >>
        /\ resp.clients = {}

\* /admin was asked for after logout, with clients and projects in the store
C4_Witness ==
    /\ LastRoute = "admin"
    /\ session[LastBrowser] = 0
    /\ resp.target = "login"
    /\ projects # {}
    /\ \E u \in users : u.role = "client"

\* C5: a projects row is inserted only by /create_project from an admin's
\* session, and /create_project or /create_client from an anonymous or client
\* session changes neither table
C5_OnlyAdminsCreate ==
    [][/\ \A p \in projects' \ projects :
              /\ resp'.req.route = "create_project"
              /\ SessionRole(resp'.req.browser) = "admin"
       /\ (/\ resp'.req.route \in {"create_project", "create_client"}
           /\ SessionRole(resp'.req.browser) \in {"anonymous", "client"})
          => (users' = users /\ projects' = projects)]_vars

\* a client's /create_project with a valid form was turned away
C5_Witness ==
    /\ LastRoute = "create_project"
    /\ SessionRole(LastBrowser) = "client"
    /\ Denotes(LastForm.start_date).valid
    /\ resp.status = "redirect" /\ resp.target = "index"

\* the error conditions the design expects a handler to meet
ExpectedErrors ==
    {"duplicate_email", "invalid_credentials", "role_mismatch", "bad_date", "unauthenticated"}

\* C6: no expected error condition ends a request with an uncaught exception
\* (the closing clause of the claim; where it fails, the clause that every
\* such request ends with a redirect and a flash message fails too)
C6_ExpectedErrorsNeverRaise ==
    resp.cond \in ExpectedErrors => resp.status # "error"

C8_CascadeDelete ==
    [][\A u \in users \ users' :
           /\ projects' = {p \in projects : p.client_id # u.id}
           /\ \A p \in projects' : p.client_id # u.id]_vars

\* a user with projects was deleted while another user's project stayed
C8_Witness ==
    /\ LastRoute = "store_delete_user"
    /\ resp.projects # {}
    /\ projects # {}

\* C9: every users row has role admin or client, the admins are exactly the
\* seeded one, and every row a request inserts has role client while the rows
\* already there keep their role
C9_RequestsCreateOnlyClients ==
    /\ [](\A u \in users : u.role \in {"admin", "client"})
    /\ []({u \in users : u.role = "admin"} = {u \in users : u.id = 1 /\ u.email = AdminEmail})
    /\ [][/\ \A u \in users' \ users : u.role = "client"
          /\ \A u \in users : \E v \in users' : v.id = u.id /\ v.role = u.role]_vars

\* two clients and the one seeded admin exist, the last client inserted by /create_client
C9_Witness ==
    /\ LastRoute = "create_client" /\ resp.flash = "client_created"
    /\ Cardinality({u \in users : u.role = "client"}) = 2
    /\ Cardinality({u \in users : u.role = "admin"}) = 1

\* C10: every project's client_id is the id of a users row with role client
C10_ProjectsBelongToClients ==
    \A p \in projects : \E u \in users : u.id = p.client_id /\ u.role = "client"

====
